---- MODULE Spec2Model ----
(***************************************************************************)
(* The ArcGIS tile source adapter of osgPlugins/arcgis/ReaderWriterArcGIS  *)
(* as a state machine: the adapter's fields after construction, the        *)
(* profile that initialize publishes, and the requests of the host's       *)
(* caller threads (createImage, createHeightField, getPixelsPerTile,       *)
(* getExtension).                                                          *)
(*                                                                         *)
(* Strings the code inspects or concatenates (the tile format, the URL)    *)
(* are sequences of one-character strings.  A double is a fixed-point      *)
(* integer counting units of 1/Scale; the inputs are chosen so that every  *)
(* division the code performs is exact.                                    *)
(***************************************************************************)
EXTENDS Integers, Sequences, FiniteSets, TLC

VARIABLES
    _url,          \* the "url" option: base URL of the map service
    _profile_str,  \* the "profile" option, "" when absent
    _layer,        \* "_alllayers"
    _format,       \* "png", what getExtension returns
    _map_service,  \* the metadata MapService::init read, or its failed state
    phase,         \* "constructed", then "initialized"
    profile,       \* the profile passed to setProfile, NullProfile before
    req,           \* per caller thread: its request and where it stands
    forms          \* address forms of the URLs handed to readImageFile so far

adapter == <<_url, _profile_str, _layer, _format, _map_service>>
vars == <<_url, _profile_str, _layer, _format, _map_service,
          phase, profile, req, forms>>

(***************************************************************************)
(* Bounds of the model.                                                    *)
(***************************************************************************)
\* tile keys have levels of detail 0..MaxLevel
MaxLevel == 1
\* the corners of a service-reported extent lie in -MaxCoord..MaxCoord
MaxCoord == 1

\* level-0 tile counts a service may report along either axis
TileCounts == {1, 2}
\* the host's caller threads; MainThread is the only one in Spec
Threads == {"t1", "t2"}
MainThread == "t1"

RECURSIVE Pow2(_)
Pow2(n) == IF n = 0 THEN 1 ELSE 2 * Pow2(n - 1)

\* units per 1.0: d/2 and width/(tiles * 2^level) are then exact
Scale == 4 * Pow2(MaxLevel)

(***************************************************************************)
(* Character strings.                                                      *)
(***************************************************************************)
Upper == <<"A","B","C","D","E","F","G","H","I","J","K","L","M",
           "N","O","P","Q","R","S","T","U","V","W","X","Y","Z">>
Lower == <<"a","b","c","d","e","f","g","h","i","j","k","l","m",
           "n","o","p","q","r","s","t","u","v","w","x","y","z">>

\* tolower on one character
tolower(c) ==
    IF \E i \in 1..Len(Upper) : Upper[i] = c
    THEN Lower[CHOOSE i \in 1..Len(Upper) : Upper[i] = c]
    ELSE c

\* std::transform( f.begin(), f.end(), f.begin(), tolower )
transform_tolower(f) == [i \in 1..Len(f) |-> tolower(f[i])]

\* f.substr( 0, n )
substr(f, n) == SubSeq(f, 1, IF n < Len(f) THEN n ELSE Len(f))

png == <<"p","n","g">>

\* variant of NormalizeFormat: the token is not lowercased first
NormalizeFormat_NoLower(fmt) ==
    IF Len(fmt) > 3 /\ substr(fmt, 3) = png THEN png ELSE fmt

\* the format token createImage puts into the URL
NormalizeFormat(fmt) ==
    LET f == transform_tolower(fmt)
    IN  IF Len(f) > 3 /\ substr(f, 3) = png THEN png ELSE f

(***************************************************************************)
(* Stream output of numbers.                                               *)
(***************************************************************************)
Digits == <<"0","1","2","3","4","5","6","7","8","9">>

\* std::setprecision(16)
Precision == 16

RECURSIVE FormatNat(_)
FormatNat(n) ==
    IF n < 10 THEN <<Digits[n + 1]>>
    ELSE FormatNat(n \div 10) \o <<Digits[(n % 10) + 1]>>

\* operator<< of an int or an unsigned int
FormatInt(n) == IF n < 0 THEN <<"-">> \o FormatNat(-n) ELSE FormatNat(n)

\* the fraction r/Scale in decimal, at most n more significant digits
RECURSIVE FracDigits(_, _, _)
FracDigits(r, n, started) ==
    IF r = 0 \/ n = 0 THEN << >>
    ELSE LET d == (r * 10) \div Scale
             s == started \/ d # 0
         IN  <<Digits[d + 1]>>
             \o FracDigits((r * 10) % Scale, IF s THEN n - 1 ELSE n, s)

\* operator<< of a double in the default float format at Precision digits:
\* no trailing zeros, no decimal point for a whole number.  Every value of
\* the model has fewer than Precision significant digits, so no rounding
\* and no exponent form occurs.
FormatDouble(v) ==
    LET a    == IF v < 0 THEN -v ELSE v
        ip   == a \div Scale
        int  == FormatNat(ip)
        frac == FracDigits(a % Scale,
                           IF ip = 0 THEN Precision ELSE Precision - Len(int),
                           ip # 0)
    IN  (IF v < 0 THEN <<"-">> ELSE << >>) \o int
        \o (IF frac = << >> THEN << >> ELSE <<".">> \o frac)

(***************************************************************************)
(* Profiles, extents and tile keys of the host.                            *)
(***************************************************************************)
\* Profile::create( srs, xmin, ymin, xmax, ymax, tilesX, tilesY )
Profile_create(srs, xMin, yMin, xMax, yMax, tilesX, tilesY) ==
    [srs |-> srs, xMin |-> xMin, yMin |-> yMin, xMax |-> xMax, yMax |-> yMax,
     tilesX |-> tilesX, tilesY |-> tilesY]

\* a NULL Profile pointer
NullProfile == Profile_create("NULL", 0, 0, 0, 0, 0, 0)

\* GeoExtent::width(), GeoExtent::height()
width(ex)  == ex.xMax - ex.xMin
height(ex) == ex.yMax - ex.yMin

\* Registry::instance()->getGlobalGeodeticProfile()
getGlobalGeodeticProfile ==
    Profile_create("epsg:4326", (-180) * Scale, (-90) * Scale,
                   180 * Scale, 90 * Scale, 2, 1)

\* Profile::create( name ): a well-known profile, or NULL for an unknown name
Profile_createNamed(name) ==
    IF name = "global-geodetic" THEN getGlobalGeodeticProfile ELSE NullProfile

\* Profile::getNumTiles( lod, tilesX, tilesY )
getNumTiles(p, lod) ==
    [tilesX |-> p.tilesX * Pow2(lod), tilesY |-> p.tilesY * Pow2(lod)]

\* the tile keys the host makes for a profile
TileKeys(p) ==
    IF p = NullProfile THEN {}
    ELSE UNION { { [lod |-> l, x |-> x, y |-> y] :
                     x \in 0..(getNumTiles(p, l).tilesX - 1),
                     y \in 0..(getNumTiles(p, l).tilesY - 1) } :
                 l \in 0..MaxLevel }

\* TileKey::getGeoExtent(): rows count down from the top of the profile
getGeoExtent(p, key) ==
    LET w    == width(p) \div getNumTiles(p, key.lod).tilesX
        h    == height(p) \div getNumTiles(p, key.lod).tilesY
        xmin == p.xMin + w * key.x
        ymax == p.yMax - h * key.y
    IN  [xMin |-> xmin, yMin |-> ymax - h, xMax |-> xmin + w, yMax |-> ymax]

\* no tile key
NoKey == [lod |-> 0 - 1, x |-> 0, y |-> 0]

(***************************************************************************)
(* The map service's metadata, as MapService::init leaves it.              *)
(***************************************************************************)
\* the tile size a service reports
TileSize == 256

\* format tokens a service may declare
Formats == { <<"P","N","G","2","4">>, <<"P","N","G">>,
             <<"p","n","g","8">>, <<"J","P","G">> }

\* full extents a service may report, with whole corners in lo..hi
ServiceExtents(lo, hi) ==
    { e \in [xMin : lo..hi, yMin : lo..hi, xMax : lo..hi, yMax : lo..hi] :
        e.xMin < e.xMax /\ e.yMin < e.yMax }

\* profiles a service may report: a full extent and a level-0 grid
ServiceProfiles(lo, hi) ==
    { Profile_create("epsg:26917", e.xMin * Scale, e.yMin * Scale,
                     e.xMax * Scale, e.yMax * Scale, tx, ty) :
        e \in ServiceExtents(lo, hi), tx \in TileCounts, ty \in TileCounts }

\* TileInfo
TileInfo(tileSize, format) == [tileSize |-> tileSize, format |-> format]

\* a MapService whose init( url ) failed: nothing was read
FailedService ==
    [ok |-> FALSE, tiled |-> FALSE, profile |-> NullProfile,
     tileInfo |-> TileInfo(0, << >>)]

\* the states MapService::init( url ) can leave the service in
MapServices(profiles, formats) ==
    {FailedService} \cup
    [ok : {TRUE}, tiled : BOOLEAN, profile : profiles \cup {NullProfile},
     tileInfo : {TileInfo(TileSize, f) : f \in formats}]

(***************************************************************************)
(* URL synthesis of createImage.                                           *)
(***************************************************************************)
\* variant of TileURL: the column is written before the row
TileURL_Swapped(url, level, tile_x, tile_y, f) ==
    url \o <<"/","t","i","l","e">>
        \o <<"/">> \o FormatInt(level)
        \o <<"/">> \o FormatInt(tile_x)
        \o <<"/">> \o FormatInt(tile_y) \o <<".">> \o f

\* buf << _url << "/tile" << "/" << level << "/" << tile_y << "/" << tile_x
\*     << "." << f
TileURL(url, level, tile_x, tile_y, f) ==
    url \o <<"/","t","i","l","e">>
        \o <<"/">> \o FormatInt(level)
        \o <<"/">> \o FormatInt(tile_y)
        \o <<"/">> \o FormatInt(tile_x) \o <<".">> \o f

\* variant of ExportURL: each y value is written before its x value
ExportURL_Swapped(url, ex, f) ==
    url \o <<"/","e","x","p","o","r","t">>
        \o <<"?","b","b","o","x","=">>
        \o FormatDouble(ex.yMin) \o <<",">> \o FormatDouble(ex.xMin)
        \o <<",">>
        \o FormatDouble(ex.yMax) \o <<",">> \o FormatDouble(ex.xMax)
        \o <<"&","f","o","r","m","a","t","=">> \o f
        \o <<"&","s","i","z","e","=","2","5","6",",","2","5","6">>
        \o <<"&","t","r","a","n","s","p","a","r","e","n","t","=",
             "t","r","u","e">>
        \o <<"&","f","=","i","m","a","g","e">>
        \o <<"&">> \o <<".">> \o f

\* buf << _url << "/export" << "?bbox=" << xMin << "," << yMin << ","
\*     << xMax << "," << yMax << "&format=" << f << "&size=256,256"
\*     << "&transparent=true" << "&f=image" << "&" << "." << f
ExportURL(url, ex, f) ==
    url \o <<"/","e","x","p","o","r","t">>
        \o <<"?","b","b","o","x","=">>
        \o FormatDouble(ex.xMin) \o <<",">> \o FormatDouble(ex.yMin)
        \o <<",">>
        \o FormatDouble(ex.xMax) \o <<",">> \o FormatDouble(ex.yMax)
        \o <<"&","f","o","r","m","a","t","=">> \o f
        \o <<"&","s","i","z","e","=","2","5","6",",","2","5","6">>
        \o <<"&","t","r","a","n","s","p","a","r","e","n","t","=",
             "t","r","u","e">>
        \o <<"&","f","=","i","m","a","g","e">>
        \o <<"&">> \o <<".">> \o f

\* variant of SynthesizeURL: level 0 is always exported
SynthesizeURL_ByLevel(ms, url, p, key) ==
    LET f == NormalizeFormat(ms.tileInfo.format)
    IN  IF ms.tiled /\ key.lod > 0
        THEN TileURL(url, key.lod, key.x, key.y, f)
        ELSE ExportURL(url, getGeoExtent(p, key), f)

\* the branch of createImage on _map_service.isTiled()
SynthesizeURL(ms, url, p, key) ==
    LET f == NormalizeFormat(ms.tileInfo.format)
    IN  IF ms.tiled
        THEN TileURL(url, key.lod, key.x, key.y, f)
        ELSE ExportURL(url, getGeoExtent(p, key), f)

\* the address form of a synthesized URL: what follows the base URL
AddressForm(base, url) ==
    LET rest == SubSeq(url, Len(base) + 1, Len(url))
    IN  IF substr(rest, 6) = <<"/","t","i","l","e","/">> THEN "tile"
        ELSE IF substr(rest, 8) = <<"/","e","x","p","o","r","t","?">>
             THEN "export"
             ELSE "other"

(***************************************************************************)
(* initialize: the profile the adapter publishes.                          *)
(***************************************************************************)
\* variant of SquareExtent: the whole difference is added on one side
SquareExtent_NoCenter(p) ==
    IF width(p) > height(p)
    THEN LET d == width(p) - height(p)
         IN  Profile_create(p.srs, p.xMin, p.yMin, p.xMax, p.yMax + d,
                            p.tilesX, p.tilesY)
    ELSE IF width(p) < height(p)
    THEN LET d == height(p) - width(p)
         IN  Profile_create(p.srs, p.xMin, p.yMin, p.xMax + d, p.yMax,
                            p.tilesX, p.tilesY)
    ELSE p

\* the expansion of a non-square extent to a square one
SquareExtent(p) ==
    IF width(p) > height(p)
    THEN LET d == width(p) - height(p)
         IN  Profile_create(p.srs, p.xMin, p.yMin - d \div 2,
                            p.xMax, p.yMax + d \div 2, p.tilesX, p.tilesY)
    ELSE IF width(p) < height(p)
    THEN LET d == height(p) - width(p)
         IN  Profile_create(p.srs, p.xMin - d \div 2, p.yMin,
                            p.xMax + d \div 2, p.yMax, p.tilesX, p.tilesY)
    ELSE p

\* variant of EffectiveProfile: the service's profile is tried first
EffectiveProfile_ServiceFirst(profile_str, ms) ==
    IF ms.profile # NullProfile
    THEN IF ~ms.tiled THEN SquareExtent(ms.profile) ELSE ms.profile
    ELSE IF profile_str # ""
    THEN Profile_createNamed(profile_str)
    ELSE getGlobalGeodeticProfile

\* the profile initialize passes to setProfile
EffectiveProfile(profile_str, ms) ==
    IF profile_str # ""
    THEN Profile_createNamed(profile_str)
    ELSE IF ms.profile # NullProfile
    THEN IF ~ms.tiled THEN SquareExtent(ms.profile) ELSE ms.profile
    ELSE getGlobalGeodeticProfile

(***************************************************************************)
(* The adapter after construction.                                         *)
(***************************************************************************)
\* the "url" option: the REST services URL of the map service
BaseURLs == { <<"h","/","m">> }

\* the "profile" option: absent, a well-known name, an unknown name
ProfileOptions == {"", "global-geodetic", "no-such-profile"}

\* a caller thread that is in no request
Idle ==
    [pc |-> "idle", op |-> "none", key |-> NoKey, url |-> << >>,
     result |-> "none", ival |-> 0, sval |-> ""]

\* a caller thread back from an operation
Returned(op, result, ival, sval) ==
    [pc |-> "returned", op |-> op, key |-> NoKey, url |-> << >>,
     result |-> result, ival |-> ival, sval |-> sval]

\* ArcGISSource::ArcGISSource( options )
Construct(profiles, formats) ==
    /\ _url \in BaseURLs
    /\ _profile_str \in ProfileOptions
    /\ _layer = "_alllayers"
    /\ _format = "png"
    /\ _map_service \in MapServices(profiles, formats)
    /\ phase = "constructed"
    /\ profile = NullProfile
    /\ req = [t \in Threads |-> Idle]
    /\ forms = {}

\* every service the bounds allow
Init == Construct(ServiceProfiles(0 - MaxCoord, MaxCoord), Formats)

\* the services reporting the unit extent and one format, for several callers
InitConc == Construct(ServiceProfiles(0, 1), {<<"P","N","G","2","4">>})

(***************************************************************************)
(* The operations.                                                         *)
(***************************************************************************)
\* the overrideProfile argument of initialize, which the adapter ignores
OverrideArgs == {NullProfile, getGlobalGeodeticProfile}

\* ArcGISSource::initialize( referenceURI, overrideProfile )
initialize(overrideProfile) ==
    /\ phase = "constructed"
    /\ profile' = EffectiveProfile(_profile_str, _map_service)
    /\ phase' = "initialized"
    /\ UNCHANGED <<adapter, req, forms>>

\* variant of createImage: the normalized format is stored back
createImage_CachingFormat(t, key) ==
    /\ phase = "initialized"
    /\ req[t].pc # "fetching"
    /\ LET url == SynthesizeURL(_map_service, _url, profile, key)
       IN  /\ req' = [req EXCEPT ![t] =
                        [pc |-> "fetching", op |-> "createImage", key |-> key,
                         url |-> url, result |-> "none", ival |-> 0,
                         sval |-> ""]]
           /\ forms' = forms \cup {AddressForm(_url, url)}
    /\ _map_service' =
         [_map_service EXCEPT !.tileInfo.format =
            NormalizeFormat(_map_service.tileInfo.format)]
    /\ UNCHANGED <<_url, _profile_str, _layer, _format, phase, profile>>

\* ArcGISSource::createImage( key, progress ) up to the call of
\* HTTPClient::readImageFile, which is then in flight
createImage(t, key) ==
    /\ phase = "initialized"
    /\ req[t].pc # "fetching"
    /\ LET url == SynthesizeURL(_map_service, _url, profile, key)
       IN  /\ req' = [req EXCEPT ![t] =
                        [pc |-> "fetching", op |-> "createImage", key |-> key,
                         url |-> url, result |-> "none", ival |-> 0,
                         sval |-> ""]]
           /\ forms' = forms \cup {AddressForm(_url, url)}
    /\ UNCHANGED <<adapter, phase, profile>>

\* how HTTPClient::readImageFile can end
Outcomes == {"image", "failed", "cancelled"}

\* the return of HTTPClient::readImageFile, which createImage returns
readImageFileReturn(t, outcome) ==
    /\ req[t].pc = "fetching"
    /\ req' = [req EXCEPT ![t] =
                 Returned("createImage",
                          IF outcome = "image" THEN "image" ELSE "NULL",
                          0, "")]
    /\ UNCHANGED <<adapter, phase, profile, forms>>

\* variant of createHeightField: the height field is fetched like an image
createHeightField_Fetching(t, key) ==
    /\ phase = "initialized"
    /\ req[t].pc # "fetching"
    /\ LET url == SynthesizeURL(_map_service, _url, profile, key)
       IN  /\ req' = [req EXCEPT ![t] =
                        [pc |-> "fetching", op |-> "createHeightField",
                         key |-> key, url |-> url, result |-> "none",
                         ival |-> 0, sval |-> ""]]
           /\ forms' = forms \cup {AddressForm(_url, url)}
    /\ UNCHANGED <<adapter, phase, profile>>

\* ArcGISSource::createHeightField( key, progress )
createHeightField(t, key) ==
    /\ phase = "initialized"
    /\ req[t].pc # "fetching"
    /\ req' = [req EXCEPT ![t] = Returned("createHeightField", "NULL", 0, "")]
    /\ UNCHANGED <<adapter, phase, profile, forms>>

\* ArcGISSource::getPixelsPerTile()
getPixelsPerTile(t) ==
    /\ phase = "initialized"
    /\ req[t].pc # "fetching"
    /\ req' = [req EXCEPT ![t] =
                 Returned("getPixelsPerTile", "value",
                          _map_service.tileInfo.tileSize, "")]
    /\ UNCHANGED <<adapter, phase, profile, forms>>

\* ArcGISSource::getExtension()
getExtension(t) ==
    /\ phase = "initialized"
    /\ req[t].pc # "fetching"
    /\ req' = [req EXCEPT ![t] = Returned("getExtension", "value", 0, _format)]
    /\ UNCHANGED <<adapter, phase, profile, forms>>

\* one step of a caller thread
Request(t) ==
    \/ \E key \in TileKeys(profile) : createImage(t, key)
    \/ \E outcome \in Outcomes : readImageFileReturn(t, outcome)
    \/ \E key \in TileKeys(profile) : createHeightField(t, key)
    \/ getPixelsPerTile(t)
    \/ getExtension(t)

\* one caller: requests are issued one after another
Next ==
    \/ \E overrideProfile \in OverrideArgs : initialize(overrideProfile)
    \/ Request(MainThread)

Spec == Init /\ [][Next]_vars

\* several callers: requests interleave
NextConc ==
    \/ \E overrideProfile \in OverrideArgs : initialize(overrideProfile)
    \/ \E t \in Threads : Request(t)

SpecConc == InitConc /\ [][NextConc]_vars

(***************************************************************************)
(* Properties.                                                             *)
(***************************************************************************)
Fetching(t) == req[t].pc = "fetching"

\* the format token the URL of a service declaring fmt is expected to carry
ExpectedFormat(fmt) ==
    LET lf == transform_tolower(fmt)
    IN  IF Len(lf) >= 3 /\ SubSeq(lf, 1, 3) = <<"p","n","g">>
        THEN <<"p","n","g">>
        ELSE lf

\* {base}/export?bbox={xmin},{ymin},{xmax},{ymax}&format={format}
\* &size=256,256&transparent=true&f=image
ExportTemplate(base, ex, f) ==
    base \o <<"/","e","x","p","o","r","t","?","b","b","o","x","=">>
         \o FormatDouble(ex.xMin) \o <<",">> \o FormatDouble(ex.yMin)
         \o <<",">> \o FormatDouble(ex.xMax) \o <<",">>
         \o FormatDouble(ex.yMax)
         \o <<"&","f","o","r","m","a","t","=">> \o f
         \o <<"&","s","i","z","e","=","2","5","6",",","2","5","6",
              "&","t","r","a","n","s","p","a","r","e","n","t","=",
              "t","r","u","e","&","f","=","i","m","a","g","e">>

\* C1: for a tiled service the URL createImage fetches for a key is exactly
\* {base}/tile/{level}/{row}/{column}.{format}: the row (tile y) before the
\* column (tile x), and nothing appended.
C1_TiledURL ==
    \A t \in Threads :
        (Fetching(t) /\ _map_service.tiled) =>
            req[t].url =
                _url \o <<"/","t","i","l","e","/">>
                     \o FormatInt(req[t].key.lod) \o <<"/">>
                     \o FormatInt(req[t].key.y) \o <<"/">>
                     \o FormatInt(req[t].key.x) \o <<".">>
                     \o ExpectedFormat(_map_service.tileInfo.format)

\* a tiled fetch is in flight for a key whose row and column differ
C1_Witness ==
    \E t \in Threads :
        /\ Fetching(t) /\ _map_service.tiled
        /\ req[t].key.lod > 0 /\ req[t].key.x # req[t].key.y

\* C2 as stated: for a dynamic-export service the URL createImage fetches is
\* exactly {base}/export?bbox={xmin},{ymin},{xmax},{ymax}&format={format}
\* &size=256,256&transparent=true&f=image, with nothing after f=image.
C2_ExportURL_AsStated ==
    \A t \in Threads :
        (Fetching(t) /\ ~_map_service.tiled) =>
            req[t].url =
                ExportTemplate(_url, getGeoExtent(profile, req[t].key),
                               ExpectedFormat(_map_service.tileInfo.format))

\* C2 as amended: the URL is the stated template followed by "&.{format}";
\* the four bbox values are in the order xmin, ymin, xmax, ymax.
C2_ExportURL ==
    \A t \in Threads :
        (Fetching(t) /\ ~_map_service.tiled) =>
            LET f == ExpectedFormat(_map_service.tileInfo.format)
            IN  req[t].url =
                    ExportTemplate(_url, getGeoExtent(profile, req[t].key), f)
                    \o <<"&", ".">> \o f

\* an export fetch is in flight for an extent whose four values differ
C2_Witness ==
    \E t \in Threads :
        /\ Fetching(t) /\ ~_map_service.tiled
        /\ LET ex == getGeoExtent(profile, req[t].key)
           IN  Cardinality({ex.xMin, ex.yMin, ex.xMax, ex.yMax}) = 4

\* C3: after the metadata fetch failed during construction, no createImage
\* request issues a fetch and every one returns NULL.
C3_FailedInitNoFetch ==
    ~_map_service.ok =>
        \A t \in Threads :
            /\ ~Fetching(t)
            /\ req[t].op = "createImage" => req[t].result = "NULL"

\* C4: initialize publishes the configured profile override when one is
\* given, otherwise the service's profile when it reports one, otherwise the
\* global geodetic profile; a lower-priority source is never used while a
\* higher-priority one is present.
C4_ProfilePriority ==
    phase = "initialized" =>
        IF _profile_str # ""
        THEN profile = Profile_createNamed(_profile_str)
        ELSE IF _map_service.profile # NullProfile
        THEN /\ profile.srs = _map_service.profile.srs
             /\ profile.tilesX = _map_service.profile.tilesX
             /\ profile.tilesY = _map_service.profile.tilesY
             /\ _map_service.tiled => profile = _map_service.profile
        ELSE profile = getGlobalGeodeticProfile

\* an override is configured while the service reports a profile as well
C4_Witness ==
    /\ phase = "initialized"
    /\ _profile_str = "global-geodetic"
    /\ _map_service.profile # NullProfile

\* the published extent is the reported one made square about its center
SquaredAboutCenter(o, p) ==
    /\ width(p) = height(p)
    /\ p.xMin + p.xMax = o.xMin + o.xMax
    /\ p.yMin + p.yMax = o.yMin + o.yMax
    /\ p.tilesX = o.tilesX /\ p.tilesY = o.tilesY
    /\ width(o) > height(o) =>
         /\ p.xMin = o.xMin /\ p.xMax = o.xMax
         /\ 2 * (o.yMin - p.yMin) = width(o) - height(o)
         /\ 2 * (p.yMax - o.yMax) = width(o) - height(o)
    /\ height(o) > width(o) =>
         /\ p.yMin = o.yMin /\ p.yMax = o.yMax
         /\ 2 * (o.xMin - p.xMin) = height(o) - width(o)
         /\ 2 * (p.xMax - o.xMax) = height(o) - width(o)

\* the service is in dynamic-export mode and reports a non-square extent
NonSquareExport ==
    /\ _map_service.ok /\ ~_map_service.tiled
    /\ _map_service.profile # NullProfile
    /\ width(_map_service.profile) # height(_map_service.profile)

\* C5 as stated: in dynamic-export mode, for every non-square reported
\* extent the published profile's extent is square, has the reported center
\* and level-0 tile counts, and only the shorter dimension grew, by half the
\* difference on each side.
C5_Squared_AsStated ==
    (phase = "initialized" /\ NonSquareExport) =>
        SquaredAboutCenter(_map_service.profile, profile)

\* C5 as amended: the same, when no profile override is configured.
C5_Squared ==
    (phase = "initialized" /\ NonSquareExport /\ _profile_str = "") =>
        SquaredAboutCenter(_map_service.profile, profile)

\* initialize has squared a reported extent that is higher than wide
C5_Witness ==
    /\ phase = "initialized" /\ NonSquareExport /\ _profile_str = ""
    /\ height(_map_service.profile) > width(_map_service.profile)
    /\ profile # _map_service.profile

\* C6: the format token of every synthesized URL is the declared format
\* lowercased, replaced by exactly "png" whenever the lowercased token
\* begins with "png".
C6_FormatToken ==
    \A t \in Threads :
        Fetching(t) =>
            LET f   == ExpectedFormat(_map_service.tileInfo.format)
                url == req[t].url
                n   == Len(url)
            IN  /\ n > Len(f)
                /\ SubSeq(url, n - Len(f), n) = <<".">> \o f
                /\ ~_map_service.tiled =>
                     \E i \in 1..(n - 13 - Len(f)) :
                        SubSeq(url, i, i + 13 + Len(f)) =
                            <<"&","f","o","r","m","a","t","=">> \o f
                            \o <<"&","s","i","z","e","=">>

\* a fetch is in flight for a service declaring an upper-case PNG variant
C6_Witness ==
    \E t \in Threads :
        Fetching(t) /\ _map_service.tileInfo.format = <<"P","N","G","2","4">>

\* C7: all URLs an adapter has synthesized use one address form, the one
\* the service's tiling capability fixes.
C7_OneAddressForm ==
    forms \subseteq {IF _map_service.tiled THEN "tile" ELSE "export"}

\* a later request, at a deeper level, is in flight after earlier ones
C7_Witness ==
    /\ forms # {}
    /\ \E t \in Threads : Fetching(t) /\ req[t].key.lod > 0

\* C8: createHeightField returns NULL for every key and every adapter state
\* and issues no fetch.
C8_HeightFieldNull ==
    \A t \in Threads :
        req[t].op = "createHeightField" =>
            /\ req[t].pc = "returned"
            /\ req[t].result = "NULL"
            /\ req[t].url = << >>

\* createHeightField has returned on an adapter whose metadata fetch failed
C8_Witness ==
    \E t \in Threads :
        req[t].op = "createHeightField" /\ ~_map_service.ok

\* C9: after initialize no request operation writes an adapter field, a
\* request in flight is not changed by the steps of other requests, and
\* requests for the same key get the same URL.
C9_RequestsWriteNothing ==
    [][phase = "initialized" =>
        /\ adapter' = adapter /\ profile' = profile /\ phase' = phase
        /\ \A t \in Threads :
             (Fetching(t) /\ req'[t].pc = "fetching") => req'[t] = req[t]
        /\ \A t, u \in Threads :
             (req'[t].pc = "fetching" /\ req'[u].pc = "fetching"
              /\ req'[t].key = req'[u].key) => req'[t].url = req'[u].url
      ]_vars

\* one caller's fetch has failed or was cancelled while another's is in flight
C9_Witness ==
    \E t, u \in Threads :
        /\ t # u
        /\ Fetching(t)
        /\ req[u].pc = "returned" /\ req[u].op = "createImage"
        /\ req[u].result = "NULL"

\* C10: in dynamic-export mode with the service's profile in effect, the
\* bbox of every export request has width equal to height, for every
\* reported extent and every level-0 grid.
C10_SquareRequests ==
    \A t \in Threads :
        (Fetching(t) /\ ~_map_service.tiled /\ _profile_str = ""
         /\ _map_service.profile # NullProfile) =>
            LET ex == getGeoExtent(profile, req[t].key)
            IN  width(ex) = height(ex)

====
